---- MODULE Spec2Model ----
(***************************************************************************)
(* Model of the evaluation core of ocpmodels: Evaluator.eval and           *)
(* Evaluator.update (the running total/numel accumulator), the metric      *)
(* functions they dispatch to, and the task tables.                        *)
(*                                                                         *)
(* Conventions.                                                            *)
(*  - Python strings are sequences of one-character strings, so that the   *)
(*    substring test `a in b` of the naming rule is computed on characters.*)
(*  - Energies and forces are integers in units of 0.01, so the thresholds *)
(*    0.02 and 0.03 are the integers 2 and 3.  Arithmetic is exact.        *)
(*  - A quotient total / numel is the reduced fraction <<p, q>>, q > 0.    *)
(*    None is <<>> and the float nan (mean of an empty tensor) is <<0,0>>. *)
(*  - A dict is a function; a dict mutated in place before an exception is *)
(*    raised keeps that mutation, so operators return the dict after the   *)
(*    call together with the exception raised ("none" for a normal return).*)
(*  - The `<<<<<<< HEAD` marker at evaluator.py:152 is treated as text, not *)
(*    code: the functions after it are defined as written.                 *)
(***************************************************************************)
EXTENDS Integers, Sequences, FiniteSets, TLC

(* ---- string literals of evaluator.py ---- *)
s_energy == <<"e", "n", "e", "r", "g", "y">>
s_forces == <<"f", "o", "r", "c", "e", "s">>
s_positions == <<"p", "o", "s", "i", "t", "i", "o", "n", "s">>
s_metrics == <<"m", "e", "t", "r", "i", "c", "s">>
s_mae == <<"m", "a", "e">>
s_mse == <<"m", "s", "e">>
s_energy_mae == <<"e", "n", "e", "r", "g", "y", "_", "m", "a", "e">>
s_energy_mse == <<"e", "n", "e", "r", "g", "y", "_", "m", "s", "e">>
s_forcesx_mae == <<"f", "o", "r", "c", "e", "s", "x", "_", "m", "a", "e">>
s_forcesy_mae == <<"f", "o", "r", "c", "e", "s", "y", "_", "m", "a", "e">>
s_forcesz_mae == <<"f", "o", "r", "c", "e", "s", "z", "_", "m", "a", "e">>
s_forces_mae == <<"f", "o", "r", "c", "e", "s", "_", "m", "a", "e">>
s_forces_cos == <<"f", "o", "r", "c", "e", "s", "_", "c", "o", "s">>
s_forces_magnitude == <<"f", "o", "r", "c", "e", "s", "_", "m", "a", "g", "n", "i", "t", "u", "d", "e">>
s_energy_force_within_threshold == <<"e", "n", "e", "r", "g", "y", "_", "f", "o", "r", "c", "e", "_", "w", "i", "t", "h", "i", "n", "_", "t", "h", "r", "e", "s", "h", "o", "l", "d">>
s_energy_within_threshold == <<"e", "n", "e", "r", "g", "y", "_", "w", "i", "t", "h", "i", "n", "_", "t", "h", "r", "e", "s", "h", "o", "l", "d">>
s_average_distance_within_threshold == <<"a", "v", "e", "r", "a", "g", "e", "_", "d", "i", "s", "t", "a", "n", "c", "e", "_", "w", "i", "t", "h", "i", "n", "_", "t", "h", "r", "e", "s", "h", "o", "l", "d">>
s_positions_mae == <<"p", "o", "s", "i", "t", "i", "o", "n", "s", "_", "m", "a", "e">>
s_positions_mse == <<"p", "o", "s", "i", "t", "i", "o", "n", "s", "_", "m", "s", "e">>
s_natoms == <<"n", "a", "t", "o", "m", "s">>
s_cell == <<"c", "e", "l", "l">>
s_pbc == <<"p", "b", "c">>

(* ---- bounds ---- *)
\* number of eval/update calls made by the caller in one run
MaxCalls == 2

(* ---- exact arithmetic ---- *)
Abs(x) == IF x < 0 THEN -x ELSE x

RECURSIVE Gcd(_, _)
Gcd(a, b) == IF b = 0 THEN a ELSE Gcd(b, a % b)

None == <<>>

NaN == <<0, 0>>

\* Python's t / n for n # 0, as a reduced fraction with positive denominator
TrueDiv(t, n) ==
    LET g == Gcd(Abs(t), Abs(n))
        s == IF n < 0 THEN -1 ELSE 1
    IN  << (s * t) \div g, (s * n) \div g >>

RECURSIVE SumSeq(_)
SumSeq(s) == IF s = <<>> THEN 0 ELSE Head(s) + SumSeq(Tail(s))

(* ---- stat values handed to Evaluator.update ---- *)
Num(v) == [kind |-> "num", v |-> v]

Dict(t, n) == [kind |-> "dict", total |-> t, numel |-> n]

Tensor == [kind |-> "tensor"]

Other == [kind |-> "other"]

(* ---- Evaluator.update ---- *)
ZeroRecord == [metric |-> None, total |-> 0, numel |-> 0]

\* mutant: the record is reset on every call
SeedReset(key, m) ==
    [k \in DOMAIN m \cup {key} |-> IF k = key THEN ZeroRecord ELSE m[k]]

\* mutant: a first encounter starts a new table
SeedAlone(key, m) ==
    IF key \in DOMAIN m THEN m ELSE [k \in {key} |-> ZeroRecord]

\* lines 101-106: seed a zero record on first encounter
Seed(key, m) ==
    IF key \in DOMAIN m THEN m
    ELSE [k \in DOMAIN m \cup {key} |-> IF k = key THEN ZeroRecord ELSE m[k]]

\* mutant: every stat counted as one observation
AccumulateCountOne(key, dt, dn, m) ==
    LET t == m[key].total + dt
        n == m[key].numel + 1
        added == [m EXCEPT ![key] = [m[key] EXCEPT !.total = t, !.numel = n]]
    IN  [metrics |-> [added EXCEPT ![key].metric = TrueDiv(t, n)],
         raised |-> "none"]

\* mutant: `=` for `+=`, the last stat wins and the order of calls matters
AccumulateOverwrite(key, dt, dn, m) ==
    LET t == dt
        n == dn
        added == [m EXCEPT ![key] = [m[key] EXCEPT !.total = t, !.numel = n]]
    IN  IF n = 0
        THEN [metrics |-> added, raised |-> "ZeroDivisionError"]
        ELSE [metrics |-> [added EXCEPT ![key].metric = TrueDiv(t, n)],
              raised |-> "none"]

\* mutant: the records of all keys are one shared object
AccumulateShared(key, dt, dn, m) ==
    LET t == m[key].total + dt
        n == m[key].numel + dn
        added == [k \in DOMAIN m |-> [m[key] EXCEPT !.total = t, !.numel = n]]
    IN  IF n = 0
        THEN [metrics |-> added, raised |-> "ZeroDivisionError"]
        ELSE [metrics |-> [k \in DOMAIN m |->
                              [added[k] EXCEPT !.metric = TrueDiv(t, n)]],
              raised |-> "none"]

\* lines 110-114 and 117-121: add, then recompute metric; the division
\* raises after total and numel have been stored
Accumulate(key, dt, dn, m) ==
    LET t == m[key].total + dt
        n == m[key].numel + dn
        added == [m EXCEPT ![key] = [m[key] EXCEPT !.total = t, !.numel = n]]
    IN  IF n = 0
        THEN [metrics |-> added, raised |-> "ZeroDivisionError"]
        ELSE [metrics |-> [added EXCEPT ![key].metric = TrueDiv(t, n)],
              raised |-> "none"]

\* mutant: the scalar branch does not recompute metric
updateStaleMetric(key, stat, m) ==
    LET seeded == Seed(key, m)
    IN  IF stat.kind = "dict"
        THEN Accumulate(key, stat.total, stat.numel, seeded)
        ELSE IF stat.kind = "num"
        THEN [metrics |-> [seeded EXCEPT ![key].total = @ + stat.v,
                                         ![key].numel = @ + 1],
              raised |-> "none"]
        ELSE IF stat.kind = "tensor"
        THEN [metrics |-> seeded, raised |-> "NotImplementedError"]
        ELSE [metrics |-> seeded, raised |-> "none"]

update(key, stat, m) ==
    LET seeded == Seed(key, m)
    IN  IF stat.kind = "dict"
        THEN Accumulate(key, stat.total, stat.numel, seeded)
        ELSE IF stat.kind = "num"
        THEN Accumulate(key, stat.v, 1, seeded)
        ELSE IF stat.kind = "tensor"
        THEN [metrics |-> seeded, raised |-> "NotImplementedError"]
        ELSE [metrics |-> seeded, raised |-> "none"]

(* ---- tensors ---- *)
\* A 1-D tensor is a sequence of integers, an N x 3 tensor a sequence of
\* rows.  Binary operations broadcast a leading dimension of size 1.
Broadcastable(a, b) == Len(a) = Len(b) \/ Len(a) = 1 \/ Len(b) = 1

BLen(a, b) == IF Len(a) = 1 THEN Len(b) ELSE Len(a)

At(a, i) == IF Len(a) = 1 THEN a[1] ELSE a[i]

\* torch.abs(t - p) on 1-D tensors
AbsDiff1(t, p) == [i \in 1..BLen(t, p) |-> Abs(At(t, i) - At(p, i))]

\* torch.abs(t - p) on N x 3 tensors
AbsDiff2(t, p) ==
    [i \in 1..BLen(t, p) |-> [c \in 1..3 |-> Abs(At(t, i)[c] - At(p, i)[c])]]

\* tensor[:, c]
Column(t, c) == [i \in 1..Len(t) |-> t[i][c]]

\* all elements of an N x 3 tensor, row by row
RECURSIVE Flatten(_)
Flatten(t) == IF t = <<>> THEN <<>> ELSE Head(t) \o Flatten(Tail(t))

\* tensor[a : b] with Python's 0-based half-open bounds, clipped to the size
Slice(t, a, b) ==
    LET hi == IF b < Len(t) THEN b ELSE Len(t)
    IN  IF a >= hi THEN <<>> ELSE SubSeq(t, a + 1, hi)

MaxOf(s) == CHOOSE x \in {s[i] : i \in 1..Len(s)} :
                \A j \in 1..Len(s) : s[j] <= x

(* ---- metric functions ---- *)
\* a returned record {"metric", "total", "numel"}
Record(m, t, n) == [kind |-> "dict", metric |-> m, total |-> t, numel |-> n]

Returned(rec) == [raised |-> "none", stat |-> rec]

Raised(e) == [raised |-> e]

\* torch.mean / torch.sum / numel of an error tensor given by its elements
ErrorRecord(elems) ==
    Record(IF Len(elems) = 0 THEN NaN ELSE TrueDiv(SumSeq(elems), Len(elems)),
           SumSeq(elems), Len(elems))

\* mae applied to two 1-D tensors (key = slice(None))
mae1(p, t) ==
    IF ~Broadcastable(t, p) THEN Raised("RuntimeError")
    ELSE Returned(ErrorRecord(AbsDiff1(t, p)))

\* mae applied to two N x 3 tensors
mae2(p, t) ==
    IF ~Broadcastable(t, p) THEN Raised("RuntimeError")
    ELSE Returned(ErrorRecord(Flatten(AbsDiff2(t, p))))

Square(s) == [i \in 1..Len(s) |-> s[i] * s[i]]

\* the properties whose tensors are N x 3
s_matrix_keys == {s_forces, s_positions}

\* mae(prediction, target, key) as the dispatcher calls it
mae(prediction, target, key) ==
    IF key \notin DOMAIN target \/ key \notin DOMAIN prediction
    THEN Raised("KeyError")
    ELSE IF key \in s_matrix_keys
    THEN mae2(prediction[key], target[key])
    ELSE mae1(prediction[key], target[key])

\* mse(prediction, target, key)
mse(prediction, target, key) ==
    IF key \notin DOMAIN target \/ key \notin DOMAIN prediction
    THEN Raised("KeyError")
    ELSE IF ~Broadcastable(target[key], prediction[key])
    THEN Raised("RuntimeError")
    ELSE IF key \in s_matrix_keys
    THEN Returned(ErrorRecord(
             Square(Flatten(AbsDiff2(target[key], prediction[key])))))
    ELSE Returned(ErrorRecord(Square(AbsDiff1(target[key], prediction[key]))))

\* forcesx_mae, forcesy_mae, forcesz_mae: mae on column c of "forces"
forces_column_mae(prediction, target, c) ==
    IF s_forces \notin DOMAIN prediction \/ s_forces \notin DOMAIN target
    THEN Raised("KeyError")
    ELSE mae1(Column(prediction[s_forces], c), Column(target[s_forces], c))

\* thresholds, in units of 0.01
e_thresh == 2

f_thresh == 3

\* mutant: start_idx is not advanced, every structure reads the first rows
RECURSIVE efwt_loopNoAdvance(_, _, _, _, _, _)
efwt_loopNoAdvance(natoms, error_energy, error_forces, i, start_idx, success) ==
    IF i > Len(natoms) THEN [raised |-> "none", success |-> success]
    ELSE IF i > Len(error_energy) THEN Raised("IndexError")
    ELSE LET n == natoms[i]
             rows == Flatten(Slice(error_forces, 0, n))
         IN  IF error_energy[i] < e_thresh
             THEN IF rows = <<>> THEN Raised("RuntimeError")
                  ELSE efwt_loopNoAdvance(natoms, error_energy, error_forces,
                                          i + 1, start_idx,
                                          IF MaxOf(rows) < f_thresh
                                          THEN success + 1 ELSE success)
             ELSE efwt_loopNoAdvance(natoms, error_energy, error_forces,
                                     i + 1, start_idx, success)

\* lines 196-203: the loop over the structures; `and` short-circuits, and
\* max() of an empty slice raises
RECURSIVE efwt_loop(_, _, _, _, _, _)
efwt_loop(natoms, error_energy, error_forces, i, start_idx, success) ==
    IF i > Len(natoms) THEN [raised |-> "none", success |-> success]
    ELSE IF i > Len(error_energy) THEN Raised("IndexError")
    ELSE LET n == natoms[i]
             rows == Flatten(Slice(error_forces, start_idx, start_idx + n))
         IN  IF error_energy[i] < e_thresh
             THEN IF rows = <<>> THEN Raised("RuntimeError")
                  ELSE efwt_loop(natoms, error_energy, error_forces, i + 1,
                                 start_idx + n,
                                 IF MaxOf(rows) < f_thresh
                                 THEN success + 1 ELSE success)
             ELSE efwt_loop(natoms, error_energy, error_forces, i + 1,
                            start_idx + n, success)

\* mutant: only the force rows are checked against natoms
CountCheckForcesOnly(prediction, target) ==
    IF s_natoms \notin DOMAIN target \/ s_forces \notin DOMAIN prediction
    THEN "KeyError"
    ELSE IF SumSeq(target[s_natoms]) # Len(prediction[s_forces])
    THEN "AssertionError"
    ELSE IF s_energy \notin DOMAIN prediction
    THEN "KeyError"
    ELSE "none"

\* lines 181-182: the two assertions, with the lookups they make
CountCheck(prediction, target) ==
    IF s_natoms \notin DOMAIN target \/ s_forces \notin DOMAIN prediction
    THEN "KeyError"
    ELSE IF SumSeq(target[s_natoms]) # Len(prediction[s_forces])
    THEN "AssertionError"
    ELSE IF s_energy \notin DOMAIN prediction
    THEN "KeyError"
    ELSE IF Len(target[s_natoms]) # Len(prediction[s_energy])
    THEN "AssertionError"
    ELSE "none"

energy_force_within_threshold(prediction, target, key) ==
    IF CountCheck(prediction, target) # "none"
    THEN Raised(CountCheck(prediction, target))
    ELSE IF s_forces \notin DOMAIN target
    THEN Raised("KeyError")
    ELSE IF ~Broadcastable(target[s_forces], prediction[s_forces])
    THEN Raised("RuntimeError")
    ELSE IF s_energy \notin DOMAIN target
    THEN Raised("KeyError")
    ELSE IF ~Broadcastable(target[s_energy], prediction[s_energy])
    THEN Raised("RuntimeError")
    ELSE LET total == Len(target[s_natoms])
             loop == efwt_loop(target[s_natoms],
                        AbsDiff1(target[s_energy], prediction[s_energy]),
                        AbsDiff2(target[s_forces], prediction[s_forces]),
                        1, 0, 0)
         IN  IF loop.raised # "none" THEN Raised(loop.raised)
             ELSE IF total = 0 THEN Raised("ZeroDivisionError")
             ELSE Returned(Record(TrueDiv(loop.success, total),
                                  loop.success, total))

\* mutant: `<=` for `<`
energy_within_threshold_inclusive(prediction, target, key) ==
    IF s_energy \notin DOMAIN target \/ s_energy \notin DOMAIN prediction
    THEN Raised("KeyError")
    ELSE IF ~Broadcastable(target[s_energy], prediction[s_energy])
    THEN Raised("RuntimeError")
    ELSE LET error_energy == AbsDiff1(target[s_energy], prediction[s_energy])
             success == Cardinality({i \in 1..Len(error_energy) :
                                        error_energy[i] <= e_thresh})
             total == Len(target[s_energy])
         IN  IF total = 0 THEN Raised("ZeroDivisionError")
             ELSE Returned(Record(TrueDiv(success, total), success, total))

energy_within_threshold(prediction, target, key) ==
    IF s_energy \notin DOMAIN target \/ s_energy \notin DOMAIN prediction
    THEN Raised("KeyError")
    ELSE IF ~Broadcastable(target[s_energy], prediction[s_energy])
    THEN Raised("RuntimeError")
    ELSE LET error_energy == AbsDiff1(target[s_energy], prediction[s_energy])
             success == Cardinality({i \in 1..Len(error_energy) :
                                        error_energy[i] < e_thresh})
             total == Len(target[s_energy])
         IN  IF total = 0 THEN Raised("ZeroDivisionError")
             ELSE Returned(Record(TrueDiv(success, total), success, total))

(* ---- min_diff and average_distance_within_threshold ---- *)
\* Positions and cell edges are integers in units of 0.001.  The model covers
\* diagonal cells diag(L1, L2, L3) with positive edges, for which
\* np.linalg.solve(cell.T, d.T).T is d[c] / L[c], kept as the pair <<d, L>>.

\* floor of the square root, by Newton's iteration
RECURSIVE SqrtIter(_, _)
SqrtIter(s, x) ==
    LET y == (x + s \div x) \div 2
    IN  IF y >= x THEN x ELSE SqrtIter(s, y)

ISqrt(s) == IF s = 0 THEN 0 ELSE SqrtIter(s, s)

\* mutant: `>=` for `>` in the shift
WrapFractionalInclusive(f, periodic) ==
    LET n == IF periodic THEN (f[1] % f[2]) % f[2] ELSE f[1]
    IN  IF 2 * n >= f[2] THEN <<n - f[2], f[2]>> ELSE <<n, f[2]>>

\* lines 293-299 on one fractional component f = <<n, L>>
WrapFractional(f, periodic) ==
    LET n == IF periodic THEN (f[1] % f[2]) % f[2] ELSE f[1]
    IN  IF 2 * n > f[2] THEN <<n - f[2], f[2]>> ELSE <<n, f[2]>>

\* the fractional displacements after the wrap and the shift
min_diff_fractional(pred_pos, dft_pos, cell, pbc) ==
    [i \in 1..BLen(pred_pos, dft_pos) |->
        [c \in 1..3 |->
            WrapFractional(<<At(pred_pos, i)[c] - At(dft_pos, i)[c],
                             cell[c][c]>>, pbc[c])]]

\* np.matmul(fractional, cell) for a diagonal cell: (n / L) * L
min_diff(pred_pos, dft_pos, cell, pbc) ==
    LET fractional == min_diff_fractional(pred_pos, dft_pos, cell, pbc)
    IN  [i \in 1..Len(fractional) |-> [c \in 1..3 |-> fractional[i][c][1]]]

\* mutant: the difference is taken in place, pred_pos -= dft_pos
min_diff_frame_inplace(pred_pos, dft_pos, cell, pbc) ==
    [pred_pos |-> [i \in 1..Len(pred_pos) |->
                      [c \in 1..3 |-> pred_pos[i][c] - At(dft_pos, i)[c]]],
     dft_pos |-> dft_pos, cell |-> cell]

\* the arrays handed to min_diff, after the call: lines 290-291 allocate
\* pos_diff and fractional, and lines 296-299 write to fractional only
min_diff_frame(pred_pos, dft_pos, cell, pbc) ==
    [pred_pos |-> pred_pos, dft_pos |-> dft_pos, cell |-> cell]

\* np.linalg.norm(rows, axis=1); exact when the squared norm is a square
RowNorms(rows) ==
    [i \in 1..Len(rows) |->
        ISqrt(rows[i][1] * rows[i][1] + rows[i][2] * rows[i][2]
              + rows[i][3] * rows[i][3])]

\* np.arange(0.01, 0.5, 0.001), in units of 0.001
intv == 10..499

\* torch.split(t, sizes): the consecutive chunks
RECURSIVE Split(_, _)
Split(t, sizes) ==
    IF sizes = <<>> THEN <<>>
    ELSE <<SubSeq(t, 1, Head(sizes))>>
         \o Split(SubSeq(t, Head(sizes) + 1, Len(t)), Tail(sizes))

\* mutant: `<=` for `<` in the comparison with the threshold
MeanBelowInclusive(norms, t) ==
    Len(norms) > 0 /\ SumSeq(norms) <= t * Len(norms)

\* mean < t for the mean of `norms`; the mean of no atoms is nan
MeanBelow(norms, t) ==
    Len(norms) > 0 /\ SumSeq(norms) < t * Len(norms)

average_distance_within_threshold(prediction, target, key) ==
    IF \/ {s_positions, s_natoms} \ DOMAIN prediction # {}
       \/ {s_positions, s_natoms, s_cell, s_pbc} \ DOMAIN target # {}
    THEN Raised("KeyError")
    ELSE IF \/ SumSeq(prediction[s_natoms]) # Len(prediction[s_positions])
            \/ SumSeq(target[s_natoms]) # Len(target[s_positions])
    THEN Raised("RuntimeError")
    ELSE LET pred_pos == Split(prediction[s_positions], prediction[s_natoms])
             target_pos == Split(target[s_positions], target[s_natoms])
         IN  IF \/ Len(target_pos) < Len(pred_pos)
                \/ Len(target[s_cell]) < Len(pred_pos)
             THEN Raised("IndexError")
             ELSE IF \E idx \in 1..Len(pred_pos) :
                        ~Broadcastable(pred_pos[idx], target_pos[idx])
             THEN Raised("ValueError")
             ELSE IF \E idx \in 1..Len(pred_pos), c \in 1..3 :
                        target[s_cell][idx][c][c] = 0
             THEN Raised("LinAlgError")
             ELSE LET mean_distance ==
                          [idx \in 1..Len(pred_pos) |->
                              RowNorms(min_diff(pred_pos[idx], target_pos[idx],
                                                target[s_cell][idx],
                                                target[s_pbc]))]
                      below(norms) ==
                          Cardinality({t \in intv : MeanBelow(norms, t)})
                      success == SumSeq([idx \in 1..Len(pred_pos) |->
                                            below(mean_distance[idx])])
                      total == Len(mean_distance) * Cardinality(intv)
                  IN  IF total = 0 THEN Raised("ZeroDivisionError")
                      ELSE Returned(Record(TrueDiv(success, total),
                                           success, total))

\* the batches after average_distance_within_threshold: the chunks handed to
\* min_diff are views of the position tensors (detach().cpu().numpy())
average_distance_frame(prediction, target) ==
    IF average_distance_within_threshold(prediction, target, None).raised
           \in {"KeyError", "RuntimeError", "IndexError"}
    THEN [prediction |-> prediction, target |-> target]
    ELSE LET pred_pos == Split(prediction[s_positions], prediction[s_natoms])
             target_pos == Split(target[s_positions], target[s_natoms])
             after(idx) == min_diff_frame(pred_pos[idx], target_pos[idx],
                                          target[s_cell][idx], target[s_pbc])
         IN  [prediction |->
                  [prediction EXCEPT ![s_positions] =
                      Flatten([idx \in 1..Len(pred_pos) |-> after(idx).pred_pos])],
              target |->
                  [target EXCEPT
                      ![s_positions] =
                          Flatten([idx \in 1..Len(target_pos) |->
                                      IF idx <= Len(pred_pos)
                                      THEN after(idx).dft_pos
                                      ELSE target_pos[idx]]),
                      ![s_cell] =
                          [idx \in 1..Len(target[s_cell]) |->
                              IF idx <= Len(pred_pos) THEN after(idx).cell
                              ELSE target[s_cell][idx]]]]

(* ---- the task tables and the dispatcher ---- *)
\* a dict {"metrics": [...]} and a list [...] stored under a key
MetricsDict(fns) == [kind |-> "dict", metrics |-> fns]

MetricsList(fns) == [kind |-> "list", items |-> fns]

\* a dict as the sequence of its items, in insertion order
task_metrics ==
    [s2ef |-> << <<s_energy, MetricsDict(<<s_energy_mae>>)>>,
                 <<s_forces, MetricsDict(<<s_forcesx_mae, s_forcesy_mae,
                                           s_forcesz_mae, s_forces_mae,
                                           s_forces_cos, s_forces_magnitude,
                                           s_energy_force_within_threshold>>)>> >>,
     is2rs |-> << <<s_positions,
                    MetricsDict(<<s_average_distance_within_threshold,
                                  s_positions_mae, s_positions_mse>>)>> >>,
     is2re |-> << <<s_metrics, MetricsList(<<s_energy_mae, s_energy_mse,
                                             s_energy_within_threshold>>)>> >>]

task_primary_metric ==
    [s2ef |-> s_energy_force_within_threshold,
     is2rs |-> s_average_distance_within_threshold,
     is2re |-> s_energy_mae]

\* mutant: a supplied eval_metrics is preferred to the built-in one
EvaluatorPreferSupplied(task, eval_metrics) ==
    [task |-> task,
     target_metrics |-> IF task \in DOMAIN task_metrics /\ eval_metrics = <<>>
                        THEN task_metrics[task] ELSE eval_metrics]

\* Evaluator.__init__: task_metrics.get(task, eval_metrics)
Evaluator(task, eval_metrics) ==
    [task |-> task,
     target_metrics |-> IF task \in DOMAIN task_metrics
                        THEN task_metrics[task] ELSE eval_metrics]

\* the module-level functions that take (prediction, target, key)
ThreeArgFns ==
    {s_forcesx_mae, s_forcesy_mae, s_forcesz_mae, s_mae, s_mse,
     s_energy_force_within_threshold, s_energy_within_threshold,
     s_average_distance_within_threshold}

\* the module-level functions defined with (prediction, target) only
TwoArgFns ==
    {s_forces_mae, s_forces_cos, s_forces_magnitude,
     s_positions_mae, s_positions_mse}

\* eval(fn)(prediction, target, target_property), line 95
Call(fn, prediction, target, target_property) ==
    IF fn \in TwoArgFns THEN Raised("TypeError")
    ELSE IF fn \notin ThreeArgFns THEN Raised("NameError")
    ELSE IF fn = s_mae THEN mae(prediction, target, target_property)
    ELSE IF fn = s_mse THEN mse(prediction, target, target_property)
    ELSE IF fn = s_forcesx_mae THEN forces_column_mae(prediction, target, 1)
    ELSE IF fn = s_forcesy_mae THEN forces_column_mae(prediction, target, 2)
    ELSE IF fn = s_forcesz_mae THEN forces_column_mae(prediction, target, 3)
    ELSE IF fn = s_energy_force_within_threshold
    THEN energy_force_within_threshold(prediction, target, target_property)
    ELSE IF fn = s_energy_within_threshold
    THEN energy_within_threshold(prediction, target, target_property)
    ELSE average_distance_within_threshold(prediction, target, target_property)

\* `a in b` on strings: a occurs in b as a contiguous run of characters
IsSubstring(a, b) ==
    \E i \in 0..(Len(b) - Len(a)) : SubSeq(b, i + 1, i + Len(a)) = a

\* mutant: the property is always prefixed
metric_name_prefixed(target_property, fn) ==
    target_property \o <<"_">> \o fn

\* lines 90-94
metric_name(target_property, fn) ==
    IF ~IsSubstring(target_property, fn)
    THEN target_property \o <<"_">> \o fn
    ELSE fn

\* lines 88-96 from item i of target_metrics, function j of its list:
\* `calls` lists the pairs reached, `updates` the update calls made
RECURSIVE eval_loop(_, _, _, _, _, _, _, _)
eval_loop(tm, prediction, target, i, j, m, calls, updates) ==
    IF i > Len(tm)
    THEN [metrics |-> m, raised |-> "none", calls |-> calls, updates |-> updates]
    ELSE IF tm[i][2].kind = "list"
    THEN [metrics |-> m, raised |-> "TypeError", calls |-> calls,
          updates |-> updates]
    ELSE IF j > Len(tm[i][2].metrics)
    THEN eval_loop(tm, prediction, target, i + 1, 1, m, calls, updates)
    ELSE LET target_property == tm[i][1]
             fn == tm[i][2].metrics[j]
             name == metric_name(target_property, fn)
             call == [property |-> target_property, fn |-> fn, name |-> name]
             res == Call(fn, prediction, target, target_property)
         IN  IF res.raised # "none"
             THEN [metrics |-> m, raised |-> res.raised,
                   calls |-> Append(calls, call), updates |-> updates]
             ELSE LET u == update(name, res.stat, m)
                      ups == Append(updates, <<name, res.stat>>)
                  IN  IF u.raised # "none"
                      THEN [metrics |-> u.metrics, raised |-> u.raised,
                            calls |-> Append(calls, call), updates |-> ups]
                      ELSE eval_loop(tm, prediction, target, i, j + 1,
                                     u.metrics, Append(calls, call), ups)

\* the batches after the calls that eval dispatched: the metric functions
\* build new tensors (lines 128-227, 313-332); the position tensors go
\* through min_diff
RECURSIVE eval_frame(_, _, _)
eval_frame(calls, prediction, target) ==
    IF calls = <<>> THEN [prediction |-> prediction, target |-> target]
    ELSE LET after ==
                 IF Head(calls).fn = s_average_distance_within_threshold
                 THEN average_distance_frame(prediction, target)
                 ELSE [prediction |-> prediction, target |-> target]
         IN  eval_frame(Tail(calls), after.prediction, after.target)

\* Evaluator.eval(prediction, target, prev_metrics) on the dict prev_metrics
eval(self, prediction, target, prev) ==
    eval_loop(self.target_metrics, prediction, target, 1, 1, prev, <<>>, <<>>)

(* ---- state ---- *)
VARIABLES
    metrics,        \* the caller-owned MetricsTable threaded through the calls
    prev_metrics,   \* the dict object bound as default of eval's prev_metrics
    hist,           \* history: key -> the stats handed to update for `metrics`
    last,           \* the last call: operation, arguments, exception, result
    ncalls,         \* number of calls made so far
    obs,            \* the (key, stat) observations handed out, in order
    partial,        \* worker -> the partial MetricsTable it has built
    merged,         \* the table the partial tables are merged into
    merge_done,     \* the merge steps <<worker, key>> already made
    phase,          \* "work" while workers accumulate, then "merge"
    batch_prediction,   \* the prediction batch a metric function is given
    batch_target,       \* the target batch a metric function is given
    result,         \* the metric function called on the batch and its outcome
    evaluators,     \* the Evaluator objects constructed: id -> attributes
    task_tables,    \* the class attributes task_metrics, task_primary_metric
    norm_args,      \* the arguments of a Normalizer or create_normalizer call
    normalizer,     \* the outcome of the construction: the object or the error
    norm_io         \* tensors passed through norm / denorm / forward

evalVars == <<metrics, prev_metrics, hist, last, ncalls>>

mergeVars == <<obs, partial, merged, merge_done, phase>>

metricVars == <<batch_prediction, batch_target, result>>

objVars == <<evaluators, task_tables>>

normVars == <<norm_args, normalizer, norm_io>>

vars == <<evalVars, mergeVars, metricVars, objVars, normVars>>

EmptyTable == [k \in {} |-> ZeroRecord]

\* the class attributes as the class statement leaves them
ClassTables ==
    [task_metrics |-> task_metrics, task_primary_metric |-> task_primary_metric]

\* no Evaluator constructed
IdleObjects ==
    /\ evaluators = <<>>
    /\ task_tables = ClassTables

\* no Normalizer call made
IdleNormalizer ==
    /\ norm_args = <<>>
    /\ normalizer = <<>>
    /\ norm_io = <<>>

EmptyHist == [k \in {} |-> <<>>]

Log(h, key, stat) ==
    [k \in DOMAIN h \cup {key} |->
        IF k = key
        THEN (IF k \in DOMAIN h THEN Append(h[k], stat) ELSE <<stat>>)
        ELSE h[k]]

RECURSIVE LogAll(_, _)
LogAll(h, updates) ==
    IF updates = <<>> THEN h
    ELSE LogAll(Log(h, Head(updates)[1], Head(updates)[2]), Tail(updates))

\* inputs of the direct update calls
UpdateKeys == {s_energy_mae, s_forces_mae}

StatValues == {Num(-1), Num(2), Dict(3, 2), Dict(0, 0), Tensor, Other}

(* ---- batches ---- *)
UnitCell == << <<1000, 0, 0>>, <<0, 1000, 0>>, <<0, 0, 1000>> >>

Batch(energy, forces, natoms, positions) ==
    (s_energy :> energy) @@ (s_forces :> forces) @@ (s_natoms :> natoms)
    @@ (s_positions :> positions)
    @@ (s_cell :> [i \in 1..Len(natoms) |-> UnitCell])
    @@ (s_pbc :> <<TRUE, TRUE, TRUE>>)

\* two structures of 1 and 2 atoms; the first is within both thresholds
TargetA == Batch(<<100, 200>>,
                 << <<0, 0, 0>>, <<10, 0, 0>>, <<0, -10, 0>> >>,
                 <<1, 2>>,
                 << <<0, 0, 0>>, <<100, 0, 0>>, <<0, 500, 0>> >>)

PredictionA == Batch(<<101, 205>>,
                     << <<1, 0, -2>>, <<10, 4, 0>>, <<0, -10, 0>> >>,
                     <<1, 2>>,
                     << <<900, 0, 0>>, <<100, 0, 30>>, <<0, 500, 0>> >>)

\* one structure of one atom, predicted exactly
TargetB == Batch(<<50>>, << <<5, 5, 5>> >>, <<1>>, << <<1, 2, 3>> >>)

PredictionB == TargetB

\* a batch that carries energies only
TargetC == (s_energy :> <<10, 20, 30>>)

PredictionC == (s_energy :> <<10, 26, 31>>)

Batches == {<<PredictionA, TargetA>>, <<PredictionB, TargetB>>,
            <<PredictionC, TargetC>>}

\* a batch that has every property the built-in tasks read, with per-atom
\* tensors as long as sum(natoms) and per-structure tensors as len(natoms)
Consistent(prediction, target) ==
    /\ DOMAIN prediction = DOMAIN target
    /\ {s_energy, s_forces, s_natoms, s_positions, s_cell, s_pbc}
           \subseteq DOMAIN target
    /\ \A b \in {prediction, target} :
        /\ Len(b[s_energy]) = Len(b[s_natoms])
        /\ Len(b[s_forces]) = SumSeq(b[s_natoms])
        /\ Len(b[s_positions]) = SumSeq(b[s_natoms])
        /\ Len(b[s_cell]) = Len(b[s_natoms])
    /\ prediction[s_natoms] = target[s_natoms]
    /\ Len(target[s_natoms]) > 0
    /\ \A i \in 1..Len(target[s_natoms]) : target[s_natoms][i] > 0

(* ---- evaluators ---- *)
\* a caller-supplied metric specification, used with an unknown task
CustomMetrics ==
    << <<s_energy, MetricsDict(<<s_mae, s_energy_within_threshold>>)>>,
       <<s_forces, MetricsDict(<<s_forcesx_mae,
                                 s_energy_force_within_threshold>>)>> >>

\* a second one, naming a function that is defined with two parameters
CustomForces ==
    << <<s_forces, MetricsDict(<<s_forcesy_mae, s_forces_mae>>)>> >>

BuiltinTasks == {"s2ef", "is2rs", "is2re"}

\* the (task, eval_metrics) pairs that the callers construct Evaluators from
EvaluatorArgs ==
    {<<t, CustomMetrics>> : t \in BuiltinTasks \cup {"custom"}}
    \cup {<<"custom_forces", CustomForces>>}

Evaluators == {Evaluator(a[1], a[2]) : a \in EvaluatorArgs}

Init ==
    /\ metrics = EmptyTable
    /\ prev_metrics = EmptyTable
    /\ hist = EmptyHist
    /\ last = [op |-> "init", raised |-> "none"]
    /\ ncalls = 0
    /\ obs = <<>>
    /\ partial = <<>>
    /\ merged = EmptyTable
    /\ merge_done = {}
    /\ phase = "off"
    /\ batch_prediction = <<>>
    /\ batch_target = <<>>
    /\ result = [fn |-> <<>>]
    /\ evaluators = [a \in EvaluatorArgs |-> Evaluator(a[1], a[2])]
    /\ task_tables = ClassTables
    /\ IdleNormalizer

\* evaluator.update(key, stat, metrics) called by the caller on its own table
Update(key, stat) ==
    /\ ncalls < MaxCalls
    /\ LET r == update(key, stat, metrics)
       IN  /\ metrics' = r.metrics
           /\ last' = [op |-> "update", raised |-> r.raised,
                       key |-> key, stat |-> stat]
    /\ hist' = Log(hist, key, stat)
    /\ ncalls' = ncalls + 1
    /\ UNCHANGED <<prev_metrics, mergeVars, metricVars, objVars, normVars>>

EvalCall(self, prediction, target, prior, r, default) ==
    [op |-> "eval", raised |-> r.raised, task |-> self.task,
     self |-> self, prediction |-> prediction, target |-> target,
     prior |-> prior, default |-> default, calls |-> r.calls, ret |-> r.metrics,
     after |-> eval_frame(r.calls, prediction, target)]

\* metrics = evaluator.eval(prediction, target, prev_metrics=metrics)
EvalPrior(self, prediction, target) ==
    /\ ncalls < MaxCalls
    /\ LET r == eval(self, prediction, target, metrics)
       IN  /\ metrics' = r.metrics
           /\ hist' = LogAll(hist, r.updates)
           /\ last' = EvalCall(self, prediction, target, metrics, r, FALSE)
    /\ ncalls' = ncalls + 1
    /\ UNCHANGED <<prev_metrics, mergeVars, metricVars, objVars, normVars>>

\* evaluator.eval(prediction, target): prev_metrics is the default object,
\* created once when the method is defined and shared by every call
EvalDefault(self, prediction, target) ==
    /\ ncalls < MaxCalls
    /\ LET r == eval(self, prediction, target, prev_metrics)
       IN  /\ prev_metrics' = r.metrics
           /\ last' = EvalCall(self, prediction, target, prev_metrics, r, TRUE)
    /\ ncalls' = ncalls + 1
    /\ UNCHANGED <<metrics, hist, mergeVars, metricVars, objVars, normVars>>

Next ==
    \/ \E key \in UpdateKeys, stat \in StatValues : Update(key, stat)
    \/ \E a \in DOMAIN evaluators, b \in Batches :
           EvalPrior(evaluators[a], b[1], b[2])
    \/ \E a \in DOMAIN evaluators, b \in Batches :
           EvalDefault(evaluators[a], b[1], b[2])

Spec == Init /\ [][Next]_vars

(* ---- partial tables built by workers and merged by update ---- *)
\* bounds of the merge scenario
NumWorkers == 2

MaxObs == 3

Workers == 1..NumWorkers

\* the stats a worker accumulates: a scalar, a batch record, an empty batch
WorkerStats == {Num(-1), Dict(3, 2), Dict(0, 0)}

InitMerge ==
    /\ metrics = EmptyTable
    /\ prev_metrics = EmptyTable
    /\ hist = EmptyHist
    /\ last = [op |-> "init", raised |-> "none"]
    /\ ncalls = 0
    /\ obs = <<>>
    /\ partial = [w \in Workers |-> EmptyTable]
    /\ merged = EmptyTable
    /\ merge_done = {}
    /\ phase = "work"
    /\ batch_prediction = <<>>
    /\ batch_target = <<>>
    /\ result = [fn |-> <<>>]
    /\ IdleObjects
    /\ IdleNormalizer

\* worker w merges the next observation into its own table
Observe(w, key, stat) ==
    /\ phase = "work"
    /\ Len(obs) < MaxObs
    /\ partial' = [partial EXCEPT ![w] = update(key, stat, partial[w]).metrics]
    /\ obs' = Append(obs, <<key, stat>>)
    /\ UNCHANGED <<merged, merge_done, phase, evalVars, metricVars, objVars, normVars>>

\* the workers are done; their tables are handed over for merging
StartMerge ==
    /\ phase = "work"
    /\ phase' = "merge"
    /\ UNCHANGED <<obs, partial, merged, merge_done, evalVars, metricVars, objVars, normVars>>

\* a record of a table, handed to update as a stat
AsStat(rec) == [kind |-> "dict", metric |-> rec.metric,
                total |-> rec.total, numel |-> rec.numel]

\* one merge step: update(key, partial[w][key], merged), in any order
MergeStep(w, key) ==
    /\ phase = "merge"
    /\ key \in DOMAIN partial[w]
    /\ <<w, key>> \notin merge_done
    /\ merged' = update(key, AsStat(partial[w][key]), merged).metrics
    /\ merge_done' = merge_done \cup {<<w, key>>}
    /\ UNCHANGED <<obs, partial, phase, evalVars, metricVars, objVars, normVars>>

NextMerge ==
    \/ \E w \in Workers, key \in UpdateKeys, stat \in WorkerStats :
          Observe(w, key, stat)
    \/ StartMerge
    \/ \E w \in Workers, key \in UpdateKeys : MergeStep(w, key)

SpecMerge == InitMerge /\ [][NextMerge]_vars

\* a single table receiving the observations one at a time
RECURSIVE RunAll(_, _)
RunAll(os, m) ==
    IF os = <<>> THEN m
    ELSE RunAll(Tail(os), update(Head(os)[1], Head(os)[2], m).metrics)

(* ---- the threshold metric functions applied to a batch ---- *)
\* bounds of the batches
MaxStructs == 2

MaxAtoms == 3

MaxRows == 5

SeqsUpTo(S, n) == UNION {[1..k -> S] : k \in 0..n}

\* predicted energies against a target of 100: errors of 0.01 and 0.02
PredictedEnergies == {99, 102}

\* predicted force rows against a zero target: largest error 0.02 and 0.03
PredictedForceRows == {<<0, 0, 2>>, <<0, -3, 0>>}

InitMetric ==
    /\ metrics = EmptyTable
    /\ prev_metrics = EmptyTable
    /\ hist = EmptyHist
    /\ last = [op |-> "init", raised |-> "none"]
    /\ ncalls = 0
    /\ obs = <<>>
    /\ partial = <<>>
    /\ merged = EmptyTable
    /\ merge_done = {}
    /\ phase = "off"
    /\ \E natoms \in SeqsUpTo(0..MaxAtoms, MaxStructs),
          energy \in SeqsUpTo(PredictedEnergies, MaxStructs),
          forces \in SeqsUpTo(PredictedForceRows, MaxRows) :
          /\ batch_prediction = (s_energy :> energy) @@ (s_forces :> forces)
                                 @@ (s_natoms :> natoms)
          /\ batch_target = (s_energy :> [i \in 1..Len(energy) |-> 100])
                             @@ (s_forces :> [i \in 1..Len(forces) |-> <<0, 0, 0>>])
                             @@ (s_natoms :> natoms)
    /\ result = [fn |-> <<>>]
    /\ IdleObjects
    /\ IdleNormalizer

\* energy_force_within_threshold(prediction, target)
CallEnergyForceWithinThreshold ==
    /\ result.fn = <<>>
    /\ result' = [fn |-> s_energy_force_within_threshold,
                  res |-> energy_force_within_threshold(batch_prediction,
                                                        batch_target, None)]
    /\ UNCHANGED <<batch_prediction, batch_target, evalVars, mergeVars, objVars, normVars>>

\* energy_within_threshold(prediction, target)
CallEnergyWithinThreshold ==
    /\ result.fn = <<>>
    /\ result' = [fn |-> s_energy_within_threshold,
                  res |-> energy_within_threshold(batch_prediction,
                                                  batch_target, None)]
    /\ UNCHANGED <<batch_prediction, batch_target, evalVars, mergeVars, objVars, normVars>>

NextMetric ==
    \/ CallEnergyForceWithinThreshold
    \/ CallEnergyWithinThreshold

SpecMetric == InitMetric /\ [][NextMetric]_vars

\* the Evaluator scenario has not started
IdleEval ==
    /\ metrics = EmptyTable
    /\ prev_metrics = EmptyTable
    /\ hist = EmptyHist
    /\ last = [op |-> "init", raised |-> "none"]
    /\ ncalls = 0

\* no partial tables
IdleMerge ==
    /\ obs = <<>>
    /\ partial = <<>>
    /\ merged = EmptyTable
    /\ merge_done = {}
    /\ phase = "off"

\* no metric function called
IdleMetric ==
    /\ batch_prediction = <<>>
    /\ batch_target = <<>>
    /\ result = [fn |-> <<>>]

(* ---- average_distance_within_threshold applied to a batch ---- *)
\* bounds of the position batches
MaxPosStructs == 2

MaxPosAtoms == 2

\* predicted position rows, in units of 0.001
PredictedPositions == {<<30, 40, 0>>, <<600, 0, 0>>}

PositionBatch(natoms, positions) ==
    (s_natoms :> natoms) @@ (s_positions :> positions)
    @@ (s_cell :> [i \in 1..Len(natoms) |-> UnitCell])
    @@ (s_pbc :> <<TRUE, TRUE, TRUE>>)

\* structures of at least one atom; the target positions are the origin, or
\* the predicted positions
InitDistance ==
    /\ IdleEval
    /\ IdleMerge
    /\ IdleObjects
    /\ IdleNormalizer
    /\ \E natoms \in SeqsUpTo(1..MaxPosAtoms, MaxPosStructs) \ {<<>>} :
          \E positions \in [1..SumSeq(natoms) -> PredictedPositions],
             same \in BOOLEAN :
             /\ batch_prediction = PositionBatch(natoms, positions)
             /\ batch_target =
                    PositionBatch(natoms,
                        IF same THEN positions
                        ELSE [i \in 1..SumSeq(natoms) |-> <<0, 0, 0>>])
    /\ result = [fn |-> <<>>]

\* average_distance_within_threshold(prediction, target)
CallAverageDistance ==
    /\ result.fn = <<>>
    /\ result' = [fn |-> s_average_distance_within_threshold,
                  res |-> average_distance_within_threshold(
                              batch_prediction, batch_target, None)]
    /\ batch_prediction' =
           average_distance_frame(batch_prediction, batch_target).prediction
    /\ batch_target' =
           average_distance_frame(batch_prediction, batch_target).target
    /\ UNCHANGED <<evalVars, mergeVars, objVars, normVars>>

NextDistance == CallAverageDistance

SpecDistance == InitDistance /\ [][NextDistance]_vars

(* ---- min_diff applied to one atom ---- *)
\* displacement components in units of 0.001: -0.5, 0, 0.5, 0.7, 0.9, 1.5
PositionComponents == {-500, 0, 500, 700, 900, 1500}

ReferencePositions == {<<0, 0, 0>>, <<200, 200, 200>>}

Cells == {UnitCell, << <<2000, 0, 0>>, <<0, 1000, 0>>, <<0, 0, 1000>> >>}

s_min_diff == <<"m", "i", "n", "_", "d", "i", "f", "f">>

\* batch_prediction holds pred_pos, batch_target holds dft_pos, cell and pbc
InitMinDiff ==
    /\ IdleEval
    /\ IdleMerge
    /\ IdleObjects
    /\ IdleNormalizer
    /\ \E d \in [1..3 -> PositionComponents], ref \in ReferencePositions,
          cell \in Cells, pbc \in [1..3 -> BOOLEAN] :
          /\ batch_prediction = << [c \in 1..3 |-> ref[c] + d[c]] >>
          /\ batch_target = [dft_pos |-> <<ref>>, cell |-> cell, pbc |-> pbc]
    /\ result = [fn |-> <<>>]

\* min_diff(pred_pos, dft_pos, cell, pbc)
CallMinDiff ==
    /\ result.fn = <<>>
    /\ result' = [fn |-> s_min_diff,
                  fractional |-> min_diff_fractional(batch_prediction,
                                     batch_target.dft_pos, batch_target.cell,
                                     batch_target.pbc),
                  out |-> min_diff(batch_prediction, batch_target.dft_pos,
                                   batch_target.cell, batch_target.pbc)]
    /\ LET after == min_diff_frame(batch_prediction, batch_target.dft_pos,
                                   batch_target.cell, batch_target.pbc)
       IN  /\ batch_prediction' = after.pred_pos
           /\ batch_target' = [batch_target EXCEPT !.dft_pos = after.dft_pos,
                                                   !.cell = after.cell]
    /\ UNCHANGED <<evalVars, mergeVars, objVars, normVars>>

NextMinDiff == CallMinDiff

SpecMinDiff == InitMinDiff /\ [][NextMinDiff]_vars

(* ---- magnitude_error ---- *)
s_magnitude_error ==
    <<"m", "a", "g", "n", "i", "t", "u", "d", "e", "_", "e", "r", "r", "o", "r">>

\* an argument that is a dict of tensors, and one that is a tensor of the
\* given shape (a 1-D tensor has a shape of one entry)
DictOf(items) == [type |-> "dict", items |-> items]

TensorOf(shape, rows) == [type |-> "tensor", shape |-> shape, rows |-> rows]

\* torch.norm(t, p=p, dim=-1) of the rows; exact for the rows used below
PNorms(rows, p) ==
    [i \in 1..Len(rows) |->
        IF p = 1 THEN SumSeq([c \in 1..Len(rows[i]) |-> Abs(rows[i][c])])
        ELSE ISqrt(SumSeq(Square(rows[i])))]

\* magnitude_error(prediction, target, key, p); key None is slice(None)
magnitude_error(prediction, target, key, p) ==
    IF prediction.type = "dict" THEN Raised("AttributeError")
    ELSE IF Len(prediction.shape) < 2 THEN Raised("IndexError")
    ELSE IF ~(prediction.shape[2] > 1) THEN Raised("AssertionError")
    ELSE IF key # None THEN Raised("IndexError")
    ELSE IF target.type = "dict" THEN Raised("TypeError")
    ELSE IF ~Broadcastable(prediction.rows, target.rows)
    THEN Raised("RuntimeError")
    ELSE Returned(ErrorRecord(AbsDiff1(PNorms(prediction.rows, p),
                                       PNorms(target.rows, p))))

\* forces_magnitude(prediction, target), lines 165-166
forces_magnitude(prediction, target) ==
    IF s_forces \notin DOMAIN prediction.items
       \/ s_forces \notin DOMAIN target.items
    THEN Raised("KeyError")
    ELSE magnitude_error(prediction.items[s_forces], target.items[s_forces],
                         None, 2)

\* bounds of the force tensors
MaxMagRows == 2

MaxCols == 3

\* rows of c columns with norms 3 (c = 1) or 5, and 2
MagRows(c) ==
    {[i \in 1..c |-> IF i = 1 THEN 3 ELSE IF i = 2 THEN 4 ELSE 0],
     [i \in 1..c |-> IF i = c THEN -2 ELSE 0]}

InitMagnitude ==
    /\ IdleEval
    /\ IdleMerge
    /\ IdleObjects
    /\ IdleNormalizer
    /\ \E c \in 1..MaxCols :
          \E p_rows \in SeqsUpTo(MagRows(c), MaxMagRows),
             t_rows \in SeqsUpTo(MagRows(c), MaxMagRows) :
             /\ batch_prediction =
                    DictOf(s_forces :> TensorOf(<<Len(p_rows), c>>, p_rows))
             /\ batch_target =
                    DictOf(s_forces :> TensorOf(<<Len(t_rows), c>>, t_rows))
    /\ result = [fn |-> <<>>]

\* magnitude_error(prediction["forces"], target["forces"])
CallMagnitudeError ==
    /\ result.fn = <<>>
    /\ result' = [fn |-> s_magnitude_error, via |-> "tensors",
                  res |-> magnitude_error(batch_prediction.items[s_forces],
                                          batch_target.items[s_forces],
                                          None, 2)]
    /\ UNCHANGED <<batch_prediction, batch_target, evalVars, mergeVars,
                   objVars, normVars>>

\* forces_magnitude(prediction, target)
CallForcesMagnitude ==
    /\ result.fn = <<>>
    /\ result' = [fn |-> s_magnitude_error, via |-> "forces_magnitude",
                  res |-> forces_magnitude(batch_prediction, batch_target)]
    /\ UNCHANGED <<batch_prediction, batch_target, evalVars, mergeVars,
                   objVars, normVars>>

\* eval("magnitude_error")(prediction, target, "forces"), the call that the
\* dispatcher makes for a metric specification naming magnitude_error
DispatchMagnitudeError ==
    /\ result.fn = <<>>
    /\ result' = [fn |-> s_magnitude_error, via |-> "dispatcher",
                  res |-> magnitude_error(batch_prediction, batch_target,
                                          s_forces, 2)]
    /\ UNCHANGED <<batch_prediction, batch_target, evalVars, mergeVars,
                   objVars, normVars>>

NextMagnitude ==
    \/ CallMagnitudeError
    \/ CallForcesMagnitude
    \/ DispatchMagnitudeError

SpecMagnitude == InitMagnitude /\ [][NextMagnitude]_vars

(* ---- Normalizer ---- *)
\* Floating-point values are fractions <<p, q>> with q > 0 in lowest terms;
\* <<1, 0>> and <<-1, 0>> are the infinities and <<0, 0>> is nan.
Sign(x) == IF x > 0 THEN 1 ELSE IF x < 0 THEN -1 ELSE 0

Frac(p, q) == IF q = 0 THEN <<Sign(p), 0>> ELSE TrueDiv(p, q)

FracSub(a, b) ==
    IF a[2] = 0 /\ b[2] = 0
    THEN (IF a[1] = -b[1] THEN a ELSE NaN)
    ELSE Frac(a[1] * b[2] - b[1] * a[2], a[2] * b[2])

FracAdd(a, b) == FracSub(a, <<-b[1], b[2]>>)

FracMul(a, b) == Frac(a[1] * b[1], a[2] * b[2])

FracDiv(a, b) ==
    IF b[1] < 0 THEN Frac(-(a[1] * b[2]), a[2] * (-b[1]))
    ELSE Frac(a[1] * b[2], a[2] * b[1])

\* a Python float and a torch tensor of no dimension holding v
float(v) == [kind |-> "float", v |-> v]

torch_tensor(v) == [kind |-> "tensor", v |-> v]

\* Normalizer.__init__: floats become tensors, both are registered as buffers
Normalizer(mean, std) ==
    [mean |-> IF mean.kind = "float" THEN torch_tensor(mean.v) ELSE mean,
     std |-> IF std.kind = "float" THEN torch_tensor(std.v) ELSE std]

norm(self, tensor) ==
    [i \in 1..Len(tensor) |->
        FracDiv(FracSub(tensor[i], self.mean.v), self.std.v)]

\* mutant: the mean is subtracted
denormSubtract(self, normed_tensor) ==
    [i \in 1..Len(normed_tensor) |->
        FracSub(FracMul(normed_tensor[i], self.std.v), self.mean.v)]

denorm(self, normed_tensor) ==
    [i \in 1..Len(normed_tensor) |->
        FracAdd(FracMul(normed_tensor[i], self.std.v), self.mean.v)]

forward(self, normed_tensor) == denorm(self, normed_tensor)

\* bound of the tensors handed to the Normalizer
MaxNormLen == 2

Means == {<<-1, 1>>, <<0, 1>>, <<1, 2>>}

Stds == {<<-2, 1>>, <<0, 1>>, <<1, 3>>, <<1, 1>>, <<3, 1>>}

FiniteValues == {<<-3, 2>>, <<0, 1>>, <<1, 3>>, <<2, 1>>}

\* a Normalizer constructed from a mean and a std, floats or tensors
InitNorm ==
    /\ IdleEval
    /\ IdleMerge
    /\ IdleMetric
    /\ IdleObjects
    /\ norm_args = <<>>
    /\ \E mean \in Means, std \in Stds, kind \in {"float", "tensor"} :
          normalizer = Normalizer([kind |-> kind, v |-> mean],
                                  [kind |-> kind, v |-> std])
    /\ norm_io = <<>>

CallNorm(x) ==
    /\ norm_io = <<>>
    /\ norm_io' = [x |-> x, normed |-> norm(normalizer, x)]
    /\ UNCHANGED <<evalVars, mergeVars, metricVars, objVars, norm_args,
                   normalizer>>

CallDenorm ==
    /\ norm_io # <<>>
    /\ "denormed" \notin DOMAIN norm_io
    /\ norm_io' = [k \in DOMAIN norm_io \cup {"denormed"} |->
                      IF k = "denormed" THEN denorm(normalizer, norm_io.normed)
                      ELSE norm_io[k]]
    /\ UNCHANGED <<evalVars, mergeVars, metricVars, objVars, norm_args,
                   normalizer>>

CallForward ==
    /\ norm_io # <<>>
    /\ "forwarded" \notin DOMAIN norm_io
    /\ norm_io' = [k \in DOMAIN norm_io \cup {"forwarded"} |->
                      IF k = "forwarded"
                      THEN forward(normalizer, norm_io.normed)
                      ELSE norm_io[k]]
    /\ UNCHANGED <<evalVars, mergeVars, metricVars, objVars, norm_args,
                   normalizer>>

NextNorm ==
    \/ \E x \in SeqsUpTo(FiniteValues, MaxNormLen) : CallNorm(x)
    \/ CallDenorm
    \/ CallForward

SpecNorm == InitNorm /\ [][NextNorm]_vars

(* ---- create_normalizer ---- *)
\* torch.mean(tensor, dim=0) of a one-dimensional tensor of integers
torch_mean(tensor) == torch_tensor(Frac(SumSeq(tensor), Len(tensor)))

\* torch.std(tensor, dim=0), the unbiased estimate; the square root is exact
\* for the samples below, whose variances are squares
torch_std(tensor) ==
    LET n == Len(tensor)
        squares == SumSeq([i \in 1..n |-> tensor[i] * tensor[i]])
        var == Frac(n * squares - SumSeq(tensor) * SumSeq(tensor),
                    n * (n - 1))
    IN  torch_tensor(IF n < 2 THEN NaN ELSE <<ISqrt(var[1]), ISqrt(var[2])>>)

\* Normalizer.load_state_dict: when state_dict["mean"] is a float, mean and
\* std are replaced by tensors in state_dict itself; nn.Module.load_state_dict
\* then copies tensors into the buffers and refuses any other value; nothing
\* is returned
load_state_dict(self, state_dict) ==
    LET upgraded ==
            IF state_dict.mean.kind = "float"
            THEN [mean |-> torch_tensor(state_dict.mean.v),
                  std |-> torch_tensor(state_dict.std.v)]
            ELSE state_dict
        loadable(k) == upgraded[k].kind = "tensor"
    IN  [self |-> [k \in {"mean", "std"} |->
                      IF loadable(k) THEN upgraded[k] ELSE self[k]],
         state_dict |-> upgraded,
         raised |-> IF loadable("mean") /\ loadable("std") THEN "none"
                    ELSE "RuntimeError",
         returned |-> None]

\* torch.load(file): a pt file holds a state dict, an npz file is refused
torch_load(file) ==
    IF file.format = "pt" THEN [raised |-> "none", value |-> file.state]
    ELSE [raised |-> "RuntimeError", value |-> None]

\* create_normalizer(file, state_dict, tensor, mean, std): the error raised,
\* the object returned and the caller's state_dict after the call
create_normalizer(file, state_dict, tensor, mean, std) ==
    LET loaded == file # None /\ torch_load(file).raised = "none"
        archive == file # None /\ ~loaded
        state_dict1 == IF loaded THEN torch_load(file).value ELSE state_dict
        mean1 == IF archive THEN file.mean ELSE mean
        std1 == IF archive THEN file.std ELSE std
    IN  IF state_dict1 # None
        THEN LET normalizer0 ==
                     load_state_dict(Normalizer(float(<<0, 1>>),
                                                float(<<1, 1>>)), state_dict1)
             IN  \* normalizer.to(device) on what load_state_dict returned
                 [raised |-> IF normalizer0.raised # "none"
                             THEN normalizer0.raised
                             ELSE IF normalizer0.returned = None
                             THEN "AttributeError" ELSE "none",
                  normalizer |-> None,
                  state_dict |-> IF loaded THEN state_dict
                                 ELSE normalizer0.state_dict]
        ELSE LET fromTensor == tensor # None /\ mean1 # None /\ std1 # None
                 explicit == ~fromTensor /\ mean1 # None /\ std1 # None
                 mean2 == IF fromTensor THEN torch_mean(tensor)
                          ELSE IF explicit THEN torch_tensor(mean1.v)
                          ELSE mean1
                 std2 == IF fromTensor THEN torch_std(tensor)
                         ELSE IF explicit THEN torch_tensor(std1.v)
                         ELSE std1
             IN  IF mean2 = None \/ std2 = None
                 THEN [raised |-> "ValueError", normalizer |-> None,
                       state_dict |-> state_dict]
                 ELSE [raised |-> "none",
                       normalizer |-> Normalizer(mean2, std2),
                       state_dict |-> state_dict]

StateDicts ==
    {[mean |-> float(<<1, 2>>), std |-> float(<<2, 1>>)],
     [mean |-> torch_tensor(<<1, 2>>), std |-> torch_tensor(<<2, 1>>)]}

Optional(S) == {None} \cup S

Files ==
    [format : {"pt"}, state : StateDicts]
    \cup [format : {"npz"}, mean : Optional({float(<<7, 1>>)}),
                            std : Optional({float(<<4, 1>>)})]

\* sample tensors with standard deviation 3, 2, 0 and nan
Samples == {<<0, 3, 6>>, <<2, 4, 6>>, <<1, 1, 1>>, <<5>>}

InitCreate ==
    /\ IdleEval
    /\ IdleMerge
    /\ IdleMetric
    /\ IdleObjects
    /\ norm_args \in [file : Optional(Files),
                      state_dict : Optional(StateDicts),
                      tensor : Optional(Samples),
                      mean : Optional({float(<<-1, 1>>)}),
                      std : Optional({float(<<3, 1>>)})]
    /\ normalizer = <<>>
    /\ norm_io = <<>>

CallCreateNormalizer ==
    /\ norm_io = <<>>
    /\ LET r == create_normalizer(norm_args.file, norm_args.state_dict,
                                  norm_args.tensor, norm_args.mean,
                                  norm_args.std)
       IN  /\ norm_io' = [raised |-> r.raised, args |-> norm_args]
           /\ normalizer' = r.normalizer
           /\ norm_args' = [norm_args EXCEPT !.state_dict = r.state_dict]
    /\ UNCHANGED <<evalVars, mergeVars, metricVars, objVars>>

NextCreate == CallCreateNormalizer

SpecCreate == InitCreate /\ [][NextCreate]_vars

(* ---- Normalizer.load_state_dict ---- *)
\* a Python int
int(v) == [kind |-> "int", v |-> v]

\* persisted values: floats, tensors and ints
PersistedMeans ==
    {float(v) : v \in Means} \cup {torch_tensor(v) : v \in Means}
    \cup {int(v) : v \in {w \in Means : w[2] = 1}}

PersistedStds ==
    {float(v) : v \in Stds} \cup {torch_tensor(v) : v \in Stds}
    \cup {int(v) : v \in {w \in Stds : w[2] = 1}}

\* Normalizer() or a Normalizer in use, and the state to load into it
InitLoad ==
    /\ IdleEval
    /\ IdleMerge
    /\ IdleMetric
    /\ IdleObjects
    /\ norm_args \in [state_dict : [mean : PersistedMeans,
                                    std : PersistedStds]]
    /\ normalizer \in {Normalizer(float(<<0, 1>>), float(<<1, 1>>)),
                       Normalizer(float(<<5, 1>>), float(<<2, 1>>))}
    /\ norm_io = <<>>

\* normalizer.load_state_dict(state_dict)
CallLoadStateDict ==
    /\ norm_io = <<>>
    /\ LET r == load_state_dict(normalizer, norm_args.state_dict)
       IN  /\ norm_io' = [raised |-> r.raised, returned |-> r.returned,
                          args |-> norm_args]
           /\ normalizer' = r.self
           /\ norm_args' = [norm_args EXCEPT !.state_dict = r.state_dict]
    /\ UNCHANGED <<evalVars, mergeVars, metricVars, objVars>>

NextLoad == CallLoadStateDict

SpecLoad == InitLoad /\ [][NextLoad]_vars

(* ---- claims ---- *)
Contribution(stat) == IF stat.kind = "dict" THEN stat.total ELSE stat.v

Count(stat) == IF stat.kind = "dict" THEN stat.numel ELSE 1

Accumulable(h) == \A i \in 1..Len(h) : h[i].kind \in {"dict", "num"}

Contributions(h) == [i \in 1..Len(h) |-> Contribution(h[i])]

Counts(h) == [i \in 1..Len(h) |-> Count(h[i])]

\* C1: after any sequence of update calls on a name that was absent, each
\* with a {total, numel} record or a scalar, the record's total is the sum of
\* the contributions, its numel the sum of the counts, and its metric is
\* total / numel (defined when numel is not 0).
C1_WeightedSums ==
    \A k \in DOMAIN hist :
        Accumulable(hist[k]) =>
            /\ k \in DOMAIN metrics
            /\ metrics[k].total = SumSeq(Contributions(hist[k]))
            /\ metrics[k].numel = SumSeq(Counts(hist[k]))
            /\ metrics[k].numel # 0 =>
                 metrics[k].metric = TrueDiv(SumSeq(Contributions(hist[k])),
                                             SumSeq(Counts(hist[k])))

\* the mean of the per-batch means of a two-stat history
MeanOfMeans(h) ==
    LET a == TrueDiv(Contribution(h[1]), Count(h[1]))
        b == TrueDiv(Contribution(h[2]), Count(h[2]))
    IN  TrueDiv(a[1] * b[2] + b[1] * a[2], 2 * a[2] * b[2])

\* C1 witness: a record of 2 elements and a scalar merged under one name;
\* the metric 5/3 is the weighted mean, not the mean of means 7/4.
C1_Witness ==
    /\ s_energy_mae \in DOMAIN hist
    /\ hist[s_energy_mae] = <<Dict(3, 2), Num(2)>>
    /\ metrics[s_energy_mae].metric = <<5, 3>>
    /\ MeanOfMeans(hist[s_energy_mae]) = <<7, 4>>

\* C2: in every table reachable by update and eval calls, a record with
\* numel > 0 has metric = total / numel.
C2_MetricInvariant ==
    \A table \in {metrics, prev_metrics} :
        \A k \in DOMAIN table :
            table[k].numel > 0 =>
                table[k].metric = TrueDiv(table[k].total, table[k].numel)

\* C2 witness: an eval call has merged a batch into a record that an update
\* call had started from a scalar.
C2_Witness ==
    /\ last.op = "eval" /\ last.raised = "none"
    /\ s_energy_mae \in DOMAIN hist
    /\ Len(hist[s_energy_mae]) = 2
    /\ hist[s_energy_mae][1].kind = "num"
    /\ hist[s_energy_mae][2].kind = "dict"
    /\ metrics[s_energy_mae].numel > 1

\* C3: an eval call made without a prior table returns the table that the
\* same call returns on an empty table, whatever calls were made before.
C3_FreshEvalReflectsOnlyItsBatch ==
    (last.op = "eval" /\ last.default /\ last.raised = "none") =>
        last.ret = eval(last.self, last.prediction, last.target,
                        EmptyTable).metrics

\* the names of the (property, function) pairs of a built-in task
RECURSIVE PairNames(_)
PairNames(tm) ==
    IF tm = <<>> THEN {}
    ELSE LET fns == IF Head(tm)[2].kind = "dict" THEN Head(tm)[2].metrics
                    ELSE Head(tm)[2].items
         IN  {metric_name(Head(tm)[1], fns[j]) : j \in 1..Len(fns)}
             \cup PairNames(Tail(tm))

\* C4: for a built-in task, eval on a consistent batch and an empty prior
\* table calls every pair of the task and returns one record per pair; for
\* is2re these are energy_mae, energy_mse and energy_within_threshold.
C4_BuiltinTasksEvaluate ==
    (/\ last.op = "eval"
     /\ last.task \in BuiltinTasks
     /\ last.prior = EmptyTable
     /\ Consistent(last.prediction, last.target)) =>
        /\ last.raised = "none"
        /\ IF last.task = "is2re"
           THEN DOMAIN last.ret =
                    {s_energy_mae, s_energy_mse, s_energy_within_threshold}
           ELSE DOMAIN last.ret = PairNames(task_metrics[last.task])

s_forces_forces_mae == <<"f", "o", "r", "c", "e", "s", "_", "f", "o", "r", "c", "e", "s", "_", "m", "a", "e">>

\* the key the rule gives: a occurs in b when b = u \o a \o v for some u, v
RuleName(a, b) ==
    IF \E i \in 1..(Len(b) + 1) :
           /\ i + Len(a) - 1 <= Len(b)
           /\ \A j \in 1..Len(a) : b[i + j - 1] = a[j]
    THEN b
    ELSE a \o <<"_">> \o b

\* C5: every pair (property, function) that eval reaches is stored under the
\* function name when the property occurs in it, under property_function
\* otherwise; no pair is named forces_forces_mae.
C5_NamingRule ==
    last.op = "eval" =>
        /\ \A i \in 1..Len(last.calls) :
              /\ last.calls[i].name =
                     RuleName(last.calls[i].property, last.calls[i].fn)
              /\ last.calls[i].name # s_forces_forces_mae
              /\ (i < Len(last.calls) \/ last.raised = "none") =>
                     last.calls[i].name \in DOMAIN last.ret
        /\ DOMAIN last.ret \ DOMAIN last.prior
              \subseteq {last.calls[i].name : i \in 1..Len(last.calls)}

\* C5 witness: ("energy", "mae") is stored as energy_mae and
\* ("forces", "forcesx_mae") as forcesx_mae in one returned table.
C5_Witness ==
    /\ last.op = "eval" /\ last.raised = "none"
    /\ \E i, j \in 1..Len(last.calls) :
          /\ last.calls[i].property = s_energy /\ last.calls[i].fn = s_mae
          /\ last.calls[j].property = s_forces
          /\ last.calls[j].fn = s_forcesx_mae
    /\ {s_energy_mae, s_forcesx_mae} \subseteq DOMAIN last.ret
    /\ s_energy \o <<"_">> \o s_energy_mae \notin DOMAIN last.ret

\* C5 witness of the pair ("forces", "forces_mae"): it is named forces_mae.
C5_WitnessForces ==
    /\ last.op = "eval"
    /\ \E i \in 1..Len(last.calls) :
          /\ last.calls[i].property = s_forces
          /\ last.calls[i].fn = s_forces_mae
          /\ last.calls[i].name = s_forces_mae

MergeSteps == {<<w, k>> \in Workers \X UpdateKeys : k \in DOMAIN partial[w]}

MergeComplete == phase = "merge" /\ merge_done = MergeSteps

\* C6: the observations merged one at a time give the same total, numel and
\* metric as the observations split into sub-groups, each accumulated in its
\* own table, with the sub-group records then merged by update.
C6_GroupingIndependence ==
    MergeComplete =>
        LET single == RunAll(obs, EmptyTable)
        IN  /\ DOMAIN merged = DOMAIN single
            /\ \A k \in DOMAIN single :
                  /\ merged[k].total = single[k].total
                  /\ merged[k].numel = single[k].numel
                  /\ merged[k].metric = single[k].metric

\* C6 witness: three observations under one name, split 2 + 1 between two
\* sub-groups, merged to total 5 over 5 elements.
C6_Witness ==
    /\ MergeComplete
    /\ Len(obs) = 3
    /\ \A i \in 1..3 : obs[i][1] = s_energy_mae
    /\ s_energy_mae \in DOMAIN partial[1] /\ s_energy_mae \in DOMAIN partial[2]
    /\ partial[1][s_energy_mae].numel = 3
    /\ partial[2][s_energy_mae].numel = 2
    /\ merged[s_energy_mae] = [metric |-> <<1, 1>>, total |-> 5, numel |-> 5]

\* the sum of field f of the records merged so far under key k
RECURSIVE SumMerged(_, _, _)
SumMerged(ws, k, f) ==
    IF ws = {} THEN 0
    ELSE LET w == CHOOSE x \in ws : TRUE
         IN  (IF f = "total" THEN partial[w][k].total ELSE partial[w][k].numel)
             + SumMerged(ws \ {w}, k, f)

MergedWorkers(k) == {w \in Workers : <<w, k>> \in merge_done}

\* C7: whatever order the merge steps are taken in, the merged (total, numel)
\* of a name depends only on which partial records have been merged, and once
\* all are merged it is what one worker processing every batch produces.
C7_OrderIndependentMerge ==
    /\ \A k \in UpdateKeys :
          IF MergedWorkers(k) = {} THEN k \notin DOMAIN merged
          ELSE /\ k \in DOMAIN merged
               /\ merged[k].total = SumMerged(MergedWorkers(k), k, "total")
               /\ merged[k].numel = SumMerged(MergedWorkers(k), k, "numel")
    /\ MergeComplete =>
          \A k \in DOMAIN RunAll(obs, EmptyTable) :
              /\ k \in DOMAIN merged
              /\ merged[k].total = RunAll(obs, EmptyTable)[k].total
              /\ merged[k].numel = RunAll(obs, EmptyTable)[k].numel

\* C7 witness: records under two names, one of them held by two workers with
\* different element counts, and every merge step made.
C7_Witness ==
    /\ MergeComplete
    /\ Cardinality(merge_done) >= 3
    /\ \E k \in UpdateKeys :
          /\ {<<1, k>>, <<2, k>>} \subseteq merge_done
          /\ partial[1][k].numel # partial[2][k].numel
          /\ merged[k].numel = partial[1][k].numel + partial[2][k].numel

\* the batch of the last metric call, as the claims name its parts
NatomsOf == batch_target[s_natoms]

EnergyError(i) == batch_target[s_energy][i] - batch_prediction[s_energy][i]

ForceError(r, c) == batch_target[s_forces][r][c] - batch_prediction[s_forces][r][c]

\* the force rows of structure i: rows sum(natoms[0..i-1]) .. sum(natoms[0..i])
RowsOf(i) ==
    {r \in 1..Len(batch_prediction[s_forces]) :
        /\ SumSeq(SubSeq(NatomsOf, 1, i - 1)) < r
        /\ r <= SumSeq(SubSeq(NatomsOf, 1, i))}

JointSuccess(i) ==
    /\ -2 < EnergyError(i) /\ EnergyError(i) < 2
    /\ \A r \in RowsOf(i), c \in 1..3 : -3 < ForceError(r, c) /\ ForceError(r, c) < 3

\* C8: the record energy_force_within_threshold returns counts the structures
\* whose energy error is below 0.02 and whose force errors, over exactly the
\* structure's rows, are all below 0.03; the row ranges partition the force
\* rows; numel is the number of structures and metric is total / numel.
C8_JointThreshold ==
    (result.fn = s_energy_force_within_threshold /\ result.res.raised = "none") =>
        /\ result.res.stat.total =
               Cardinality({i \in 1..Len(NatomsOf) : JointSuccess(i)})
        /\ result.res.stat.numel = Len(NatomsOf)
        /\ result.res.stat.metric =
               TrueDiv(result.res.stat.total, Len(NatomsOf))
        /\ \A r \in 1..Len(batch_prediction[s_forces]) :
               Cardinality({i \in 1..Len(NatomsOf) : r \in RowsOf(i)}) = 1

\* C8 witness: two structures with good energies; the second one fails only
\* through a force row of its own range, so one of two succeeds.
C8_Witness ==
    /\ result.fn = s_energy_force_within_threshold
    /\ result.res.raised = "none"
    /\ NatomsOf = <<1, 2>>
    /\ batch_prediction[s_energy] = <<99, 99>>
    /\ batch_prediction[s_forces] = << <<0, 0, 2>>, <<0, 0, 2>>, <<0, -3, 0>> >>
    /\ result.res.stat = Record(<<1, 2>>, 1, 2)

\* C9: energy_force_within_threshold raises the count assertion, and returns
\* no record, exactly when sum(natoms) differs from the number of predicted
\* force rows or len(natoms) from the number of predicted energies.
C9_CountMismatch ==
    result.fn = s_energy_force_within_threshold =>
        /\ result.res.raised = "AssertionError" <=>
              \/ SumSeq(NatomsOf) # Len(batch_prediction[s_forces])
              \/ Len(NatomsOf) # Len(batch_prediction[s_energy])
        /\ result.res.raised = "AssertionError" =>
              "stat" \notin DOMAIN result.res

\* C9 witness: natoms = [2, 3] with 4 force rows and 2 energies is refused.
C9_Witness ==
    /\ result.fn = s_energy_force_within_threshold
    /\ NatomsOf = <<2, 3>>
    /\ Len(batch_prediction[s_forces]) = 4
    /\ Len(batch_prediction[s_energy]) = 2
    /\ result.res.raised = "AssertionError"

\* natoms = [2, 3] with 5 force rows and 2 energies passes the count check
C9_WitnessValid ==
    /\ result.fn = s_energy_force_within_threshold
    /\ NatomsOf = <<2, 3>>
    /\ Len(batch_prediction[s_forces]) = 5
    /\ Len(batch_prediction[s_energy]) = 2
    /\ result.res.raised = "none"

\* C10: energy_within_threshold counts structure i iff its energy error is
\* strictly below 0.02; total is that count, numel the number of structures,
\* metric total / numel.
C10_StrictEnergyThreshold ==
    (result.fn = s_energy_within_threshold /\ result.res.raised = "none") =>
        /\ result.res.stat.total =
               Cardinality({i \in 1..Len(batch_target[s_energy]) :
                               -2 < EnergyError(i) /\ EnergyError(i) < 2})
        /\ result.res.stat.numel = Len(batch_target[s_energy])
        /\ result.res.stat.metric =
               TrueDiv(result.res.stat.total, result.res.stat.numel)

\* C10 witness: an error of 0.01 is a success, an error of exactly 0.02 is not.
C10_Witness ==
    /\ result.fn = s_energy_within_threshold
    /\ result.res.raised = "none"
    /\ batch_prediction[s_energy] = <<99, 102>>
    /\ batch_target[s_energy] = <<100, 100>>
    /\ result.res.stat = Record(<<1, 2>>, 1, 2)

\* the sweep 0.01, 0.011, ..., 0.499 in units of 0.001
Sweep == 10..499

\* the atoms of structure idx of the position batch, as row numbers
AtomsOf(idx) ==
    {r \in 1..Len(batch_prediction[s_positions]) :
        /\ SumSeq(SubSeq(batch_target[s_natoms], 1, idx - 1)) < r
        /\ r <= SumSeq(SubSeq(batch_target[s_natoms], 1, idx))}

\* the minimum-image displacement lengths of the atoms of structure idx
DisplacementNorms(idx) ==
    RowNorms(min_diff(
        [r \in 1..batch_target[s_natoms][idx] |->
            batch_prediction[s_positions]
                [SumSeq(SubSeq(batch_target[s_natoms], 1, idx - 1)) + r]],
        [r \in 1..batch_target[s_natoms][idx] |->
            batch_target[s_positions]
                [SumSeq(SubSeq(batch_target[s_natoms], 1, idx - 1)) + r]],
        batch_target[s_cell][idx], batch_target[s_pbc]))

\* the thresholds that the mean displacement of structure idx is below
ThresholdsAbove(idx) ==
    LET sum == SumSeq(DisplacementNorms(idx))
        atoms == Cardinality(AtomsOf(idx))
    IN  {t \in Sweep : atoms > 0 /\ sum < t * atoms}

RECURSIVE SweepTotal(_)
SweepTotal(n) ==
    IF n = 0 THEN 0 ELSE Cardinality(ThresholdsAbove(n)) + SweepTotal(n - 1)

C11_WitnessDisplaced ==
    /\ result.fn = s_average_distance_within_threshold
    /\ batch_prediction[s_positions] = << <<30, 40, 0>>, <<600, 0, 0>> >>
    /\ batch_target[s_positions] = << <<0, 0, 0>>, <<0, 0, 0>> >>
    /\ batch_target[s_natoms] = <<1, 1>>
    /\ result.res.stat.total = 449 + 99

\* the raw displacement pred - target of the atom along axis c
RawDisplacement(c) == batch_prediction[1][c] - batch_target.dft_pos[1][c]

FullyPeriodicUnitCell ==
    /\ batch_target.cell = UnitCell
    /\ batch_target.pbc = <<TRUE, TRUE, TRUE>>

\* C12: with the fully periodic unit cell every displacement component is
\* mapped into [-0.5, 0.5), a fractional difference of exactly 0.5 included.
C12_HalfOpenBelow ==
    (result.fn = s_min_diff /\ FullyPeriodicUnitCell) =>
        \A c \in 1..3 : -500 <= result.out[1][c] /\ result.out[1][c] < 500

\* C12 as amended: every component is mapped into (-0.5, 0.5], by a whole
\* number of cell lengths; a fractional difference of exactly 0.5 stays 0.5
\* and 0.9 becomes -0.1.
C12_HalfOpenAbove ==
    (result.fn = s_min_diff /\ FullyPeriodicUnitCell) =>
        \A c \in 1..3 :
            /\ -500 < result.out[1][c] /\ result.out[1][c] <= 500
            /\ (result.out[1][c] - RawDisplacement(c)) % 1000 = 0
            /\ RawDisplacement(c) = 900 => result.out[1][c] = -100
            /\ RawDisplacement(c) \in {500, -500} => result.out[1][c] = 500

\* C12 witness: displacements 0.9, 0.5 and -0.5 become -0.1, 0.5 and 0.5.
C12_Witness ==
    /\ result.fn = s_min_diff
    /\ FullyPeriodicUnitCell
    /\ batch_prediction = << <<900, 500, -500>> >>
    /\ batch_target.dft_pos = << <<0, 0, 0>> >>
    /\ result.out = << <<-100, 500, 500>> >>

\* C13: along an axis that is not periodic the fractional component of the
\* output is the raw fractional component of pred - target.
C13_NonPeriodicUnwrapped ==
    result.fn = s_min_diff =>
        \A c \in 1..3 :
            ~batch_target.pbc[c] =>
                result.fractional[1][c] =
                    <<RawDisplacement(c), batch_target.cell[c][c]>>

\* C14: with std # 0, denorm(norm(x)) is x for every finite x, and
\* forward(y) is denorm(y).
C14_RoundTrip ==
    /\ ("denormed" \in DOMAIN norm_io /\ normalizer.std.v # <<0, 1>>) =>
           norm_io.denormed = norm_io.x
    /\ "forwarded" \in DOMAIN norm_io =>
           norm_io.forwarded =
               [i \in 1..Len(norm_io.normed) |->
                   FracAdd(FracMul(norm_io.normed[i], normalizer.std.v),
                           normalizer.mean.v)]

\* C14 witness: a two-element tensor moved by the normalization and brought
\* back, with the same result from forward.
C14_Witness ==
    /\ DOMAIN norm_io = {"x", "normed", "denormed", "forwarded"}
    /\ normalizer.std.v \notin {<<0, 1>>, <<1, 1>>}
    /\ normalizer.mean.v # <<0, 1>>
    /\ Len(norm_io.x) = 2
    /\ norm_io.normed # norm_io.x
    /\ norm_io.denormed = norm_io.x
    /\ norm_io.forwarded = norm_io.x

\* with std = 0 the round trip gives nan
C14_WitnessZeroStd ==
    /\ "denormed" \in DOMAIN norm_io
    /\ normalizer.std.v = <<0, 1>>
    /\ norm_io.x = << <<2, 1>> >>
    /\ norm_io.denormed = <<NaN>>

\* the serialized state that a call of create_normalizer was given
GivenState ==
    IF norm_io.args.file # None /\ norm_io.args.file.format = "pt"
    THEN norm_io.args.file.state
    ELSE norm_io.args.state_dict

\* C15: create_normalizer given a serialized state (a state_dict, or a file
\* that loads as a state record) returns a Normalizer whose mean and std are
\* the values of that state.
C15_FromSerializedState ==
    (norm_io # <<>> /\ GivenState # None) =>
        /\ norm_io.raised = "none"
        /\ normalizer # None
        /\ normalizer.mean.v = GivenState.mean.v
        /\ normalizer.std.v = GivenState.std.v

OnlyTensor ==
    /\ norm_io.args.file = None
    /\ norm_io.args.state_dict = None
    /\ norm_io.args.mean = None
    /\ norm_io.args.std = None
    /\ norm_io.args.tensor # None

\* C16: create_normalizer given only a sample tensor returns a Normalizer
\* whose mean and std are the mean and the standard deviation of the tensor.
C16_FromTensorOnly ==
    (norm_io # <<>> /\ OnlyTensor) =>
        /\ norm_io.raised = "none"
        /\ normalizer # None
        /\ normalizer.mean = torch_mean(norm_io.args.tensor)
        /\ normalizer.std = torch_std(norm_io.args.tensor)

\* the construction paths that a call of create_normalizer was given
PathSupplied ==
    \/ GivenState # None
    \/ /\ norm_io.args.file # None
       /\ norm_io.args.file.format = "npz"
       /\ norm_io.args.file.mean # None
       /\ norm_io.args.file.std # None
    \/ norm_io.args.mean # None /\ norm_io.args.std # None
    \/ norm_io.args.tensor # None

\* C17: create_normalizer raises the configuration error exactly when no
\* construction path is supplied, and returns a Normalizer otherwise.
C17_ErrorIffNoPath ==
    norm_io # <<>> =>
        /\ norm_io.raised = "ValueError" <=> ~PathSupplied
        /\ PathSupplied => (norm_io.raised = "none" /\ normalizer # None)

\* C18: the specification bound to an Evaluator is the built-in one of its
\* task whatever eval_metrics was supplied, the supplied eval_metrics for an
\* unknown task, and stays so through every eval and update call.
C18_BoundSpecFixed ==
    \A a \in DOMAIN evaluators :
        evaluators[a].target_metrics =
            IF a[1] \in BuiltinTasks THEN ClassTables.task_metrics[a[1]]
            ELSE a[2]

\* C18 witness: after an update call and an eval call of the s2ef Evaluator
\* that was constructed with a supplied specification.
C18_Witness ==
    /\ ncalls = 2
    /\ last.op = "eval"
    /\ last.task = "s2ef"
    /\ hist # EmptyHist
    /\ last.self = evaluators[<<"s2ef", CustomMetrics>>]
    /\ last.self.target_metrics # CustomMetrics
    /\ evaluators[<<"custom", CustomMetrics>>].target_metrics = CustomMetrics

\* C19: after an eval call the prediction and target batches are as they
\* were handed in, and the class-level task tables are never changed.
C19_EvalFrame ==
    /\ last.op = "eval" =>
           /\ last.after.prediction = last.prediction
           /\ last.after.target = last.target
    /\ task_tables = ClassTables

\* C19 witness: an is2rs eval that ran average_distance_within_threshold,
\* and with it min_diff, on positions that differ from the target's.
C19_Witness ==
    /\ last.op = "eval"
    /\ last.task = "is2rs"
    /\ \E i \in 1..Len(last.calls) :
           last.calls[i].fn = s_average_distance_within_threshold
    /\ metric_name(s_positions, s_average_distance_within_threshold)
           \in DOMAIN last.ret
    /\ last.prediction[s_positions] # last.target[s_positions]
    /\ last.after.prediction = last.prediction

\* the tensors that a magnitude_error call selects
SelectedPrediction == batch_prediction.items[s_forces]

SelectedTarget == batch_target.items[s_forces]

\* C20: magnitude_error raises the shape error when the selected tensors have
\* one column and returns a record otherwise, also when it is called with the
\* batch dictionaries and a property key.
C20_ShapeCheckedOnSelected ==
    result.fn = s_magnitude_error =>
        /\ SelectedPrediction.shape[2] = 1 =>
               result.res.raised = "AssertionError"
        /\ (/\ SelectedPrediction.shape[2] > 1
            /\ Broadcastable(SelectedPrediction.rows, SelectedTarget.rows)) =>
               result.res.raised = "none"

\* the same for the calls that hand over the selected tensors themselves
C20_ShapeCheckedOnTensors ==
    (result.fn = s_magnitude_error /\ result.via # "dispatcher") =>
        /\ SelectedPrediction.shape[2] = 1 =>
               result.res.raised = "AssertionError"
        /\ (/\ SelectedPrediction.shape[2] > 1
            /\ Broadcastable(SelectedPrediction.rows, SelectedTarget.rows)) =>
               /\ result.res.raised = "none"
               /\ result.res.stat.numel =
                      BLen(SelectedPrediction.rows, SelectedTarget.rows)

\* C21: after an update call that returns normally, whatever the stat, the
\* record under the key has a metric other than None.
C21_MetricSetAfterUpdate ==
    (last.op = "update" /\ last.raised = "none") =>
        metrics[last.key].metric # None

\* the same for the stats that update has a branch for
C21_MetricSetAfterNumberOrRecord ==
    (last.op = "update" /\ last.raised = "none"
         /\ last.stat.kind \in {"num", "dict"}) =>
        metrics[last.key].metric # None

\* C22: the table threaded through update and eval calls never loses a key,
\* a key is in it only if an update call named it, and a key that first
\* appears with a stat that update has no branch for holds the zero record.
C22_LazyKeysNeverShrink ==
    /\ [](DOMAIN metrics \subseteq DOMAIN hist)
    /\ [][/\ DOMAIN metrics \subseteq DOMAIN metrics'
          /\ DOMAIN prev_metrics \subseteq DOMAIN prev_metrics'
          /\ (/\ last'.op = "update"
              /\ last'.key \notin DOMAIN metrics
              /\ last'.stat.kind \in {"tensor", "other"}) =>
                 metrics'[last'.key] = ZeroRecord]_vars

\* C22 witness: a table of three keys, built by an eval call on a table that
\* an update call had started.
C22_Witness ==
    /\ last.op = "eval"
    /\ ~last.default
    /\ last.prior # EmptyTable
    /\ Cardinality(DOMAIN metrics) >= 3
    /\ DOMAIN last.prior \subseteq DOMAIN metrics
    /\ DOMAIN last.prior # DOMAIN metrics

\* C23: with explicit mean and std and a sample tensor, and no file or state,
\* create_normalizer returns a Normalizer of the explicit mean and std.
C23_ExplicitBeforeTensor ==
    (/\ norm_io # <<>>
     /\ norm_io.args.file = None
     /\ norm_io.args.state_dict = None
     /\ norm_io.args.tensor # None
     /\ norm_io.args.mean # None
     /\ norm_io.args.std # None) =>
        /\ norm_io.raised = "none"
        /\ normalizer = Normalizer(norm_io.args.mean, norm_io.args.std)

\* C24: after load_state_dict, mean and std are tensors that hold the
\* persisted values, whether these were persisted as tensors or as plain
\* scalars, one of them or both.
C24_LegacyUpgrade ==
    norm_io # <<>> =>
        /\ norm_io.raised = "none"
        /\ normalizer.mean = torch_tensor(norm_io.args.state_dict.mean.v)
        /\ normalizer.std = torch_tensor(norm_io.args.state_dict.std.v)

\* the same for a state whose mean is a float, and for a state of tensors
C24_UpgradeByMean ==
    (/\ norm_io # <<>>
     /\ \/ norm_io.args.state_dict.mean.kind = "float"
        \/ /\ norm_io.args.state_dict.mean.kind = "tensor"
           /\ norm_io.args.state_dict.std.kind = "tensor") =>
        /\ norm_io.raised = "none"
        /\ normalizer.mean = torch_tensor(norm_io.args.state_dict.mean.v)
        /\ normalizer.std = torch_tensor(norm_io.args.state_dict.std.v)

\* C25: with a file, create_normalizer builds the Normalizer from the file,
\* from its state record or else from its mean and std entries, whatever
\* state_dict, tensor, mean and std the caller passes along.
C25_FileFirst ==
    (norm_io # <<>> /\ norm_io.args.file # None) =>
        IF norm_io.args.file.format = "pt"
        THEN /\ norm_io.raised = "none"
             /\ normalizer =
                    Normalizer(norm_io.args.file.state.mean,
                               norm_io.args.file.state.std)
        ELSE (norm_io.args.file.mean # None /\ norm_io.args.file.std # None)
                 => /\ norm_io.raised = "none"
                    /\ normalizer = Normalizer(norm_io.args.file.mean,
                                               norm_io.args.file.std)

\* the part of C25 that does not go through load_state_dict: an archive file
\* passed without state_dict and tensor
C25_ArchiveAlone ==
    (/\ norm_io # <<>>
     /\ norm_io.args.file # None
     /\ norm_io.args.file.format = "npz"
     /\ norm_io.args.state_dict = None
     /\ norm_io.args.tensor = None
     /\ norm_io.args.file.mean # None
     /\ norm_io.args.file.std # None) =>
        /\ norm_io.raised = "none"
        /\ normalizer = Normalizer(norm_io.args.file.mean,
                                   norm_io.args.file.std)

\* C26: when an eval call raises, the table that the caller passed as
\* prev_metrics holds what it held before the call.
C26_EvalAllOrNothing ==
    (last.op = "eval" /\ ~last.default /\ last.raised # "none") =>
        metrics = last.prior

\* the same for the eval calls that raise in their first metric function
C26_FirstCallRaises ==
    (/\ last.op = "eval"
     /\ ~last.default
     /\ last.raised # "none"
     /\ Len(last.calls) <= 1
     /\ last.raised \notin {"ZeroDivisionError", "NotImplementedError"}) =>
        metrics = last.prior

\* C27: for a built-in task the table that eval returns has the task's
\* primary metric among its keys.
C27_PrimaryMetricIsKey ==
    (last.op = "eval" /\ last.task \in BuiltinTasks) =>
        /\ last.raised = "none"
        /\ task_tables.task_primary_metric[last.task] \in DOMAIN last.ret

\* the naming rule alone: the pairs of a built-in task that were evaluated
\* include one whose name is the task's primary metric
C27_NamingGivesPrimary ==
    (last.op = "eval" /\ last.task \in BuiltinTasks) =>
        task_tables.task_primary_metric[last.task]
            \in PairNames(task_tables.task_metrics[last.task])

\* C28: an update call that raises leaves the table as it was: no key added,
\* no record changed.
C28_UpdateRaisesUnchanged ==
    [][(last'.op = "update" /\ last'.raised # "none") => metrics' = metrics]_vars

\* the names that the last eval call passed to update
UpdatedNames == {last.calls[i].name : i \in 1..Len(last.calls)}

\* C29: an update call changes no record but the one under its key, and an
\* eval call none but those under the names of the pairs it processed, in
\* the caller's table and in the shared default table alike.
C29_OtherRecordsUnchanged ==
    [][/\ last'.op = "update" =>
              \A k \in DOMAIN metrics \ {last'.key} : metrics'[k] = metrics[k]
       /\ last'.op = "eval" =>
              /\ \A k \in DOMAIN metrics \ UpdatedNames' :
                     metrics'[k] = metrics[k]
              /\ \A k \in DOMAIN prev_metrics \ UpdatedNames' :
                     prev_metrics'[k] = prev_metrics[k]]_vars

\* C29 witness: an update call changed its record next to another key's
\* record that holds earlier observations.
C29_Witness ==
    /\ last.op = "update"
    /\ last.raised = "none"
    /\ metrics[last.key].numel > 0
    /\ \E k \in DOMAIN metrics \ {last.key} :
           /\ metrics[k].numel > 0
           /\ metrics[k] # metrics[last.key]

\* C29 witness: an eval call added records to a table that held a record
\* under another name.
C29_WitnessEval ==
    /\ last.op = "eval"
    /\ UpdatedNames # {}
    /\ \E k \in DOMAIN last.prior \ UpdatedNames :
           last.prior[k].numel > 0 /\ last.ret[k] = last.prior[k]

\* the two count assertions hold for the batch of the last metric call
CountsAgree == CountCheck(batch_prediction, batch_target) = "none"

\* C30: on a batch whose counts agree, with natoms of 0 and batches of no
\* structure included, both threshold functions return a record with
\* 0 <= total <= numel and numel the number of structures.
C30_ThresholdRecordBounds ==
    (result.fn \in {s_energy_force_within_threshold,
                    s_energy_within_threshold} /\ CountsAgree) =>
        /\ result.res.raised = "none"
        /\ 0 <= result.res.stat.total
        /\ result.res.stat.total <= result.res.stat.numel
        /\ result.res.stat.numel = Len(NatomsOf)

\* the same for batches of one or more structures of one or more atoms
C30_BoundsOnPopulatedBatches ==
    (/\ result.fn \in {s_energy_force_within_threshold,
                       s_energy_within_threshold}
     /\ CountsAgree
     /\ Len(NatomsOf) > 0
     /\ \A i \in 1..Len(NatomsOf) : NatomsOf[i] > 0) =>
        /\ result.res.raised = "none"
        /\ 0 <= result.res.stat.total
        /\ result.res.stat.total <= result.res.stat.numel
        /\ result.res.stat.numel = Len(NatomsOf)

====
